---- MODULE Spec2Model ----
(***************************************************************************)
(* The concurrent build-and-cancel pipeline of cargo-leptos: the Server,   *)
(* Front-end and Style tasks of one project, the interrupt bus they        *)
(* subscribe to, the content-addressed output store they write through,    *)
(* and the orchestrator that joins them and reduces their outcomes.        *)
(***************************************************************************)
EXTENDS Integers, Sequences, FiniteSets, TLC

VARIABLES
    proj,       \* Project: which packages are configured, and the profile
    changes,    \* ChangeSet of the current cycle
    source,     \* version of the source tree the toolchains compile
    cycle,      \* number of the current build cycle
    pc,         \* position of each task
    result,     \* Result<Outcome<Product>> of each task
    sub,        \* interrupt subscription held by each task
    proc,       \* state of each external process
    disk,       \* file contents on disk
    file_reg,   \* output store: site path -> hash of last content
    stderr,     \* captured diagnostic output of the CSS toolchain
    agg,        \* aggregate outcome of the cycle
    raises,     \* number of raises of the bus in this cycle
    spawned,    \* history: processes spawned in this cycle
    raisedEarly,\* history: the bus was raised before any task completed
    inFlight,   \* history: tasks that were in flight at a raise
    writeLog,   \* history: output store writes of the latest write phase
    lastBytes,  \* history: bytes last handed to the store per site path
    status,     \* history: how each sub-step of this cycle ended
    repeated    \* history: this cycle re-runs the last cycle, which returned
                \* Success, with the same change set and the same source

vars == <<proj, changes, source, cycle, pc, result, sub, proc, disk, file_reg,
          stderr, agg, raises, spawned, raisedEarly, inFlight, writeLog,
          lastBytes, status, repeated>>

-----------------------------------------------------------------------------
(* Bounds *)

NumSources == 2
NumSessionSources == 16
MaxRaises == 1
MaxCycles == 2
MaxStderrPieces == 3

-----------------------------------------------------------------------------
(* Types *)

Tasks == {"server", "front", "style"}
Procs == {"cargo_server", "cargo_front", "wasm_opt", "tailwind"}

\* The compiler invocations and the directory each is told to build in.
Compilers == {"cargo_server", "cargo_front"}
TargetDir(p) ==
    CASE p = "cargo_server" -> <<"target", "server">>
      [] p = "cargo_front" -> <<"target", "front">>

\* The sub-steps of a cycle that can fail: the four external processes and the
\* in-process binding generator.  status[s] is "none" until the sub-step
\* ends, then "ok" (zero exit / Ok), "failed" (non-zero exit / Err), "killed"
\* (terminated on an interrupt) or "nospawn" (the tool could not be started).
Substeps == Procs \cup {"bindgen"}

Success(p) == [outcome |-> "Success", product |-> p]
Stopped == [outcome |-> "Stopped", product |-> "None"]
Failed == [outcome |-> "Failed", product |-> "None"]
Err == [outcome |-> "Err", product |-> "None"]
Pending == [outcome |-> "Pending", product |-> "None"]

NoFile == 0
NoHash == 0 - 1

Bit(s, i) == (s \div (2 ^ i)) % 2

-----------------------------------------------------------------------------
(* Paths *)

PkgDir == <<"pkg">>
ExeFile == <<"target", "server", "app">>
WasmSource == <<"target", "front", "app.wasm">>
WasmSite == <<"app.wasm">>
JsSite == <<"app.js">>
CssSite == <<"app.css">>
TwConfigFile == <<"tailwind.config.js">>

InlineName(i) == <<"inline0.js", "inline1.js">>[i + 1]
SnippetSite(identifier, i) == <<"snippets", identifier, InlineName(i)>>
ModuleSite(path) == <<"snippets">> \o path
Dest(site) == PkgDir \o site

SnippetIds == {"a"}
ModuleKeys == {<<"a", "m.js">>}

SitePaths ==
    {WasmSite, JsSite, CssSite}
        \cup {SnippetSite(id, 0) : id \in SnippetIds}
        \cup {ModuleSite(k) : k \in ModuleKeys}

RegKeys == SitePaths \cup {ExeFile}
DiskPaths == {Dest(s) : s \in SitePaths} \cup {ExeFile, WasmSource, TwConfigFile}

-----------------------------------------------------------------------------
(* External toolchains: what each produces from a version of the source *)

ExeOf(s) == Bit(s, 0) + 1
WasmOf(s) == Bit(s, 1) + 1
GlueOf(s) == Bit(s, 0) + 1
SnippetsOf(s) == [id \in SnippetIds |-> <<Bit(s, 2) + 1>>]
ModulesOf(s) == [k \in ModuleKeys |-> Bit(s, 3) + 1]
CssOf(s) == Bit(s, 1) + 1
Optimized(c) == c + 2
DefaultTwConfig == 1

-----------------------------------------------------------------------------
(* Content-addressed output store (site) *)

file_hash(bytes) == (bytes * 7 + 3) % 64

\* One store operation on the state st = [reg, disk, log, last].
\* updated_with: hash the bytes, compare with the stored hash; if equal skip
\* the filesystem write, else write the file and replace the stored hash.
updated_with(st, site, bytes) ==
    LET new_hash == file_hash(bytes)
        changed == st.reg[site] # new_hash
    IN  [reg  |-> IF changed THEN [st.reg EXCEPT ![site] = new_hash] ELSE st.reg,
         disk |-> IF changed THEN [st.disk EXCEPT ![Dest(site)] = bytes]
                  ELSE st.disk,
         log  |-> Append(st.log, [site |-> site, bytes |-> bytes,
                                  prev |-> st.last[site], ret |-> changed,
                                  wrote |-> changed]),
         last |-> [st.last EXCEPT ![site] = bytes],
         changed |-> changed]

\* did_file_change: hash the file as it is on disk, compare, replace the
\* stored hash; the file itself is not written.
did_file_change(reg, key, bytes) == reg[key] # file_hash(bytes)

reg_after_check(reg, key, bytes) == [reg EXCEPT ![key] = file_hash(bytes)]

-----------------------------------------------------------------------------
(* Interrupt bus *)

\* raise(): every subscription that exists resolves; nothing is kept for
\* subscriptions created later.
\* A bus that wakes one waiting subscriber only.
fire_one(s) ==
    IF \E t \in Tasks : s[t] = "live"
    THEN [s EXCEPT ![CHOOSE t \in Tasks : s[t] = "live"] = "fired"]
    ELSE s

fire(s) == [t \in Tasks |-> IF s[t] = "live" THEN "fired" ELSE s[t]]

Done(t) == pc[t] = "done"
Running == agg.outcome = "Pending"
Active(t) == pc[t] \in {"cargo", "bindgen", "optimize", "write", "tailwind"}

Raise ==
    /\ Running
    /\ raises < MaxRaises
    /\ raises' = raises + 1
    /\ sub' = fire(sub)
    /\ raisedEarly' = (raisedEarly \/ \A t \in Tasks : ~Done(t))
    /\ inFlight' = inFlight \cup {t \in Tasks : Active(t)}
    /\ UNCHANGED <<status, repeated>>
    /\ UNCHANGED <<proj, changes, source, cycle, pc, result, proc, disk,
                   file_reg, stderr, agg, spawned, writeLog, lastBytes>>

-----------------------------------------------------------------------------
(* Interruptible process runner *)

\* wait_interruptible resolves to the process's exit unless the subscription
\* resolved first; then the process is killed.
\* A runner that returns Interrupted and leaves the process alone.
leave_running(pr, p) == pr

\* The runner terminates the process it was given before it returns
\* Interrupted.
terminate(pr, p) == [pr EXCEPT ![p] = "killed"]

CanExit(t) == sub[t] = "live"
Interrupted(t) == sub[t] = "fired"

Finish(t, r) ==
    /\ pc' = [pc EXCEPT ![t] = "done"]
    /\ result' = [result EXCEPT ![t] = r]
    /\ sub' = [sub EXCEPT ![t] = "none"]

-----------------------------------------------------------------------------
(* Server task *)

\* Mutant: the change set is not consulted.
server_skips_unflagged(p, ch) == ~p.bin

server_skips(p, ch) == ~p.bin \/ ~ch.server

\* A server task that reports its product after every successful build.
server_outcome_unchecked(ok, changed) ==
    IF ~ok THEN Failed ELSE Success("Server")

server_outcome(ok, changed) ==
    IF ~ok THEN Failed
    ELSE IF changed THEN Success("Server") ELSE Success("None")

ServerSkip ==
    /\ Running /\ pc["server"] = "start"
    /\ server_skips(proj, changes)
    /\ Finish("server", Success("None"))
    /\ UNCHANGED <<status, repeated>>
    /\ UNCHANGED <<proj, changes, source, cycle, proc, disk, file_reg, stderr,
                   agg, raises, spawned, raisedEarly, inFlight, writeLog,
                   lastBytes>>

ServerSpawn ==
    /\ Running /\ pc["server"] = "start"
    /\ ~server_skips(proj, changes)
    /\ pc' = [pc EXCEPT !["server"] = "cargo"]
    /\ proc' = [proc EXCEPT !["cargo_server"] = "running"]
    /\ spawned' = spawned \cup {"cargo_server"}
    /\ sub' = [sub EXCEPT !["server"] = "live"]
    /\ UNCHANGED <<status, repeated>>
    /\ UNCHANGED <<proj, changes, source, cycle, result, disk, file_reg,
                   stderr, agg, raises, raisedEarly, inFlight, writeLog,
                   lastBytes>>

\* A server task that folds a spawn failure into Outcome::Failed.
ServerSpawnFailed ==
    /\ Running /\ pc["server"] = "start"
    /\ ~server_skips(proj, changes)
    /\ Finish("server", Failed)
    /\ status' = [status EXCEPT !["cargo_server"] = "nospawn"]
    /\ UNCHANGED repeated
    /\ UNCHANGED <<proj, changes, source, cycle, proc, disk, file_reg, stderr,
                   agg, raises, spawned, raisedEarly, inFlight, writeLog,
                   lastBytes>>

ServerSpawnErr ==
    /\ Running /\ pc["server"] = "start"
    /\ ~server_skips(proj, changes)
    /\ Finish("server", Err)
    /\ status' = [status EXCEPT !["cargo_server"] = "nospawn"]
    /\ UNCHANGED repeated
    /\ UNCHANGED <<proj, changes, source, cycle, proc, disk, file_reg, stderr,
                   agg, raises, spawned, raisedEarly, inFlight, writeLog,
                   lastBytes>>

ServerCargoExit ==
    /\ Running /\ pc["server"] = "cargo" /\ CanExit("server")
    /\ \E ok \in BOOLEAN :
        LET exe == IF ok THEN ExeOf(source) ELSE disk[ExeFile]
            changed == did_file_change(file_reg, ExeFile, exe)
        IN  /\ proc' = [proc EXCEPT !["cargo_server"] = "exited"]
            /\ disk' = [disk EXCEPT ![ExeFile] = exe]
            /\ file_reg' = IF ok THEN reg_after_check(file_reg, ExeFile, exe)
                           ELSE file_reg
            /\ status' = [status EXCEPT
                              !["cargo_server"] = IF ok THEN "ok" ELSE "failed"]
            /\ Finish("server", server_outcome(ok, changed))
    /\ UNCHANGED repeated
    /\ UNCHANGED <<proj, changes, source, cycle, stderr, agg, raises, spawned,
                   raisedEarly, inFlight, writeLog, lastBytes>>

\* Mutant: the compile is also abandoned when a sibling task has failed.
ServerAborted ==
    /\ Running /\ pc["server"] = "cargo"
    /\ Interrupted("server") \/ \E u \in Tasks : result[u] = Failed
    /\ proc' = [proc EXCEPT !["cargo_server"] = "killed"]
    /\ Finish("server", Stopped)
    /\ status' = [status EXCEPT !["cargo_server"] = "killed"]
    /\ UNCHANGED repeated
    /\ UNCHANGED <<proj, changes, source, cycle, disk, file_reg, stderr, agg,
                   raises, spawned, raisedEarly, inFlight, writeLog, lastBytes>>

ServerInterrupted ==
    /\ Running /\ pc["server"] = "cargo" /\ Interrupted("server")
    /\ proc' = terminate(proc, "cargo_server")
    /\ Finish("server", Stopped)
    /\ status' = [status EXCEPT !["cargo_server"] = "killed"]
    /\ UNCHANGED repeated
    /\ UNCHANGED <<proj, changes, source, cycle, disk, file_reg, stderr, agg,
                   raises, spawned, raisedEarly, inFlight, writeLog, lastBytes>>


-----------------------------------------------------------------------------
(* Front-end task *)

RECURSIVE SetToSeq(_)
SetToSeq(S) ==
    IF S = {} THEN <<>>
    ELSE LET x == CHOOSE y \in S : TRUE IN <<x>> \o SetToSeq(S \ {x})

EmittedWasm(c) == c + 4

\* Mutant: the change set is not consulted.
front_skips_unflagged(p, ch) == ~p.lib

front_skips(p, ch) == ~p.lib \/ ~ch.front

\* Mutant: the wasm check does not count.
front_product_js_only(js_changed, wasm_changed) ==
    IF js_changed THEN Success("Front") ELSE Success("None")

front_product(js_changed, wasm_changed) ==
    IF js_changed \/ wasm_changed THEN Success("Front") ELSE Success("None")

\* The store operations of write_snippets, as <<site, bytes>> in order.
snippet_ops(snippets) ==
    LET ids == SetToSeq(DOMAIN snippets)
        RECURSIVE Ops(_)
        Ops(n) ==
            IF n > Len(ids) THEN <<>>
            ELSE [i \in 1 .. Len(snippets[ids[n]]) |->
                    <<SnippetSite(ids[n], i - 1), snippets[ids[n]][i]>>]
                 \o Ops(n + 1)
    IN  Ops(1)

\* The store operations of write_modules.
module_ops(modules) ==
    LET keys == SetToSeq(DOMAIN modules)
    IN  [n \in 1 .. Len(keys) |-> <<ModuleSite(keys[n]), modules[keys[n]]>>]

\* Mutant: js_changed || write, which skips the writes after a change.
RECURSIVE write_all_short_circuit(_, _, _)
write_all_short_circuit(st, js_changed, ops) ==
    IF ops = <<>> \/ js_changed THEN [st |-> st, js_changed |-> js_changed]
    ELSE LET nx == updated_with(st, ops[1][1], ops[1][2])
         IN  write_all_short_circuit(nx, nx.changed, Tail(ops))

\* Runs the writes in order; js_changed |= each one's result.
RECURSIVE write_all(_, _, _)
write_all(st, js_changed, ops) ==
    IF ops = <<>> THEN [st |-> st, js_changed |-> js_changed]
    ELSE LET nx == updated_with(st, ops[1][1], ops[1][2])
         IN  write_all(nx, js_changed \/ nx.changed, Tail(ops))

\* Mutant: the glue is written under the wasm file's site path.
bindgen_writes_shared_key(reg, dsk, last, src) ==
    LET st0 == [reg |-> reg, disk |-> dsk, log |-> <<>>, last |-> last,
                changed |-> FALSE]
        s1 == write_all(st0, FALSE, snippet_ops(SnippetsOf(src)))
        s2 == write_all(s1.st, s1.js_changed, module_ops(ModulesOf(src)))
        wasm == s2.st.disk[Dest(WasmSite)]
        wasm_changed == did_file_change(s2.st.reg, WasmSite, wasm)
        st3 == [s2.st EXCEPT !.reg = reg_after_check(s2.st.reg, WasmSite, wasm)]
        st4 == updated_with(st3, WasmSite, GlueOf(src))
        js_changed == s2.js_changed \/ st4.changed
    IN  [st |-> st4, js_changed |-> js_changed, wasm_changed |-> wasm_changed,
         outcome |-> front_product(js_changed, wasm_changed)]

\* The write phase of bindgen: snippets, modules, the wasm check, the glue.
bindgen_writes(reg, dsk, last, src) ==
    LET st0 == [reg |-> reg, disk |-> dsk, log |-> <<>>, last |-> last,
                changed |-> FALSE]
        s1 == write_all(st0, FALSE, snippet_ops(SnippetsOf(src)))
        s2 == write_all(s1.st, s1.js_changed, module_ops(ModulesOf(src)))
        wasm == s2.st.disk[Dest(WasmSite)]
        wasm_changed == did_file_change(s2.st.reg, WasmSite, wasm)
        st3 == [s2.st EXCEPT !.reg = reg_after_check(s2.st.reg, WasmSite, wasm)]
        st4 == updated_with(st3, JsSite, GlueOf(src))
        js_changed == s2.js_changed \/ st4.changed
    IN  [st |-> st4, js_changed |-> js_changed, wasm_changed |-> wasm_changed,
         outcome |-> front_product(js_changed, wasm_changed)]

FrontSkip ==
    /\ Running /\ pc["front"] = "start"
    /\ front_skips(proj, changes)
    /\ Finish("front", Success("None"))
    /\ UNCHANGED <<status, repeated>>
    /\ UNCHANGED <<proj, changes, source, cycle, proc, disk, file_reg, stderr,
                   agg, raises, spawned, raisedEarly, inFlight, writeLog,
                   lastBytes>>

FrontSpawn ==
    /\ Running /\ pc["front"] = "start"
    /\ ~front_skips(proj, changes)
    /\ pc' = [pc EXCEPT !["front"] = "cargo"]
    /\ proc' = [proc EXCEPT !["cargo_front"] = "running"]
    /\ spawned' = spawned \cup {"cargo_front"}
    /\ sub' = [sub EXCEPT !["front"] = "live"]
    /\ UNCHANGED <<status, repeated>>
    /\ UNCHANGED <<proj, changes, source, cycle, result, disk, file_reg,
                   stderr, agg, raises, raisedEarly, inFlight, writeLog,
                   lastBytes>>

FrontSpawnErr ==
    /\ Running /\ pc["front"] = "start"
    /\ ~front_skips(proj, changes)
    /\ Finish("front", Err)
    /\ status' = [status EXCEPT !["cargo_front"] = "nospawn"]
    /\ UNCHANGED repeated
    /\ UNCHANGED <<proj, changes, source, cycle, proc, disk, file_reg, stderr,
                   agg, raises, spawned, raisedEarly, inFlight, writeLog,
                   lastBytes>>

\* The compiler exits. On success the task goes on into bindgen, which
\* takes a fresh subscription.
FrontCargoExit ==
    /\ Running /\ pc["front"] = "cargo" /\ CanExit("front")
    /\ proc' = [proc EXCEPT !["cargo_front"] = "exited"]
    /\ \E ok \in BOOLEAN :
        IF ok
        THEN /\ disk' = [disk EXCEPT ![WasmSource] = WasmOf(source)]
             /\ pc' = [pc EXCEPT !["front"] = "bindgen"]
             /\ sub' = [sub EXCEPT !["front"] = "live"]
             /\ status' = [status EXCEPT !["cargo_front"] = "ok"]
             /\ UNCHANGED result
        ELSE /\ Finish("front", Failed)
             /\ status' = [status EXCEPT !["cargo_front"] = "failed"]
             /\ UNCHANGED disk
    /\ UNCHANGED repeated
    /\ UNCHANGED <<proj, changes, source, cycle, file_reg, stderr, agg, raises,
                   spawned, raisedEarly, inFlight, writeLog, lastBytes>>

FrontCargoInterrupted ==
    /\ Running /\ pc["front"] = "cargo" /\ Interrupted("front")
    /\ proc' = terminate(proc, "cargo_front")
    /\ Finish("front", Stopped)
    /\ status' = [status EXCEPT !["cargo_front"] = "killed"]
    /\ UNCHANGED repeated
    /\ UNCHANGED <<proj, changes, source, cycle, disk, file_reg, stderr, agg,
                   raises, spawned, raisedEarly, inFlight, writeLog, lastBytes>>

\* Bindgen generates its output and emits the wasm file; in a release build
\* the optimiser is spawned, with the subscription taken on entry.
\* A binding step that checks the wasm file against the store as soon as it
\* is emitted, before the optimiser runs.
FrontBindgenChecksWasm ==
    /\ Running /\ pc["front"] = "bindgen"
    /\ disk' = [disk EXCEPT ![Dest(WasmSite)] = EmittedWasm(disk[WasmSource])]
    /\ IF proj.release
       THEN /\ pc' = [pc EXCEPT !["front"] = "optimize"]
            /\ proc' = [proc EXCEPT !["wasm_opt"] = "running"]
            /\ spawned' = spawned \cup {"wasm_opt"}
            /\ UNCHANGED sub
       ELSE /\ pc' = [pc EXCEPT !["front"] = "write"]
            /\ UNCHANGED <<sub, proc, spawned>>
    /\ status' = [status EXCEPT !["bindgen"] = "ok"]
    /\ file_reg' = reg_after_check(file_reg, WasmSite,
                                  EmittedWasm(disk[WasmSource]))
    /\ UNCHANGED repeated
    /\ UNCHANGED <<proj, changes, source, cycle, result, stderr, agg,
                   raises, raisedEarly, inFlight, writeLog, lastBytes>>

FrontBindgen ==
    /\ Running /\ pc["front"] = "bindgen"
    /\ disk' = [disk EXCEPT ![Dest(WasmSite)] = EmittedWasm(disk[WasmSource])]
    /\ IF proj.release
       THEN /\ pc' = [pc EXCEPT !["front"] = "optimize"]
            /\ proc' = [proc EXCEPT !["wasm_opt"] = "running"]
            /\ spawned' = spawned \cup {"wasm_opt"}
            /\ UNCHANGED sub
       ELSE /\ pc' = [pc EXCEPT !["front"] = "write"]
            /\ UNCHANGED <<sub, proc, spawned>>
    /\ status' = [status EXCEPT !["bindgen"] = "ok"]
    /\ UNCHANGED repeated
    /\ UNCHANGED <<proj, changes, source, cycle, result, file_reg, stderr, agg,
                   raises, raisedEarly, inFlight, writeLog, lastBytes>>

\* The binding generator fails: the error is returned with `?`.
FrontBindgenErr ==
    /\ Running /\ pc["front"] = "bindgen"
    /\ Finish("front", Err)
    /\ status' = [status EXCEPT !["bindgen"] = "failed"]
    /\ UNCHANGED repeated
    /\ UNCHANGED <<proj, changes, source, cycle, proc, disk, file_reg, stderr,
                   agg, raises, spawned, raisedEarly, inFlight, writeLog,
                   lastBytes>>

\* The optimiser cannot be found or spawned, after the wasm file was emitted.
FrontOptimizeSpawnErr ==
    /\ Running /\ pc["front"] = "bindgen" /\ proj.release
    /\ disk' = [disk EXCEPT ![Dest(WasmSite)] = EmittedWasm(disk[WasmSource])]
    /\ status' = [status EXCEPT !["bindgen"] = "ok", !["wasm_opt"] = "nospawn"]
    /\ Finish("front", Err)
    /\ UNCHANGED repeated
    /\ UNCHANGED <<proj, changes, source, cycle, proc, file_reg, stderr, agg,
                   raises, spawned, raisedEarly, inFlight, writeLog, lastBytes>>

\* A front-end task that goes on to the writes whatever the optimiser's exit.
FrontOptimizeExitIgnored ==
    /\ Running /\ pc["front"] = "optimize" /\ CanExit("front")
    /\ proc' = [proc EXCEPT !["wasm_opt"] = "exited"]
    /\ \E ok \in BOOLEAN :
        /\ disk' = [disk EXCEPT
                        ![Dest(WasmSite)] = IF ok THEN Optimized(@) ELSE @]
        /\ status' = [status EXCEPT
                          !["wasm_opt"] = IF ok THEN "ok" ELSE "failed"]
    /\ pc' = [pc EXCEPT !["front"] = "write"]
    /\ sub' = [sub EXCEPT !["front"] = "none"]
    /\ UNCHANGED repeated
    /\ UNCHANGED <<proj, changes, source, cycle, result, file_reg, stderr, agg,
                   raises, spawned, raisedEarly, inFlight, writeLog, lastBytes>>

FrontOptimizeExit ==
    /\ Running /\ pc["front"] = "optimize" /\ CanExit("front")
    /\ proc' = [proc EXCEPT !["wasm_opt"] = "exited"]
    /\ \E ok \in BOOLEAN :
        IF ok
        THEN /\ disk' = [disk EXCEPT
                            ![Dest(WasmSite)] = Optimized(disk[Dest(WasmSite)])]
             /\ pc' = [pc EXCEPT !["front"] = "write"]
             /\ sub' = [sub EXCEPT !["front"] = "none"]
             /\ status' = [status EXCEPT !["wasm_opt"] = "ok"]
             /\ UNCHANGED result
        ELSE /\ Finish("front", Failed)
             /\ status' = [status EXCEPT !["wasm_opt"] = "failed"]
             /\ UNCHANGED disk
    /\ UNCHANGED repeated
    /\ UNCHANGED <<proj, changes, source, cycle, file_reg, stderr, agg, raises,
                   spawned, raisedEarly, inFlight, writeLog, lastBytes>>

FrontOptimizeInterrupted ==
    /\ Running /\ pc["front"] = "optimize" /\ Interrupted("front")
    /\ proc' = terminate(proc, "wasm_opt")
    /\ Finish("front", Stopped)
    /\ status' = [status EXCEPT !["wasm_opt"] = "killed"]
    /\ UNCHANGED repeated
    /\ UNCHANGED <<proj, changes, source, cycle, disk, file_reg, stderr, agg,
                   raises, spawned, raisedEarly, inFlight, writeLog, lastBytes>>

AtWrite == Running /\ pc["front"] = "write"

FrontWrite ==
    /\ AtWrite
    /\ LET w == bindgen_writes(file_reg, disk, lastBytes, source)
       IN  /\ file_reg' = w.st.reg
           /\ disk' = w.st.disk
           /\ writeLog' = w.st.log
           /\ lastBytes' = w.st.last
           /\ Finish("front", w.outcome)
    /\ UNCHANGED <<status, repeated>>
    /\ UNCHANGED <<proj, changes, source, cycle, proc, stderr, agg, raises,
                   spawned, raisedEarly, inFlight>>


-----------------------------------------------------------------------------
(* Style task *)

Marker == <<"D", "o", "n", "e">>

\* str::lines(): the text split at line feeds, a final empty line dropped.
RECURSIVE split(_, _)
split(s, cur) ==
    IF s = <<>> THEN <<cur>>
    ELSE IF Head(s) = "\n" THEN <<cur>> \o split(Tail(s), <<>>)
    ELSE split(Tail(s), Append(cur, Head(s)))

lines(s) ==
    LET parts == split(s, <<>>)
    IN  IF parts[Len(parts)] = <<>> THEN SubSeq(parts, 1, Len(parts) - 1)
        ELSE parts

contains(l, pat) ==
    \E i \in 1 .. (Len(l) - Len(pat) + 1) :
        SubSeq(l, i, i + Len(pat) - 1) = pat

\* Mutant: the marker is looked for in the whole text.
tailwind_done_anywhere(text) == contains(text, Marker)

\* .lines().last().map(|l| l.contains("Done")).unwrap_or(false)
tailwind_done(text) ==
    LET ls == lines(text)
    IN  IF ls = <<>> THEN FALSE ELSE contains(ls[Len(ls)], Marker)

\* compile_tailwind's match on the CommandResult of the captured run.
compile_tailwind(ok, text) ==
    IF ok THEN (IF tailwind_done(text) THEN "Success" ELSE "Failed")
    ELSE "Failed"

style_skips(p, ch) == ~p.style \/ ~ch.style

style_product(changed) ==
    IF changed THEN Success("Style") ELSE Success("None")

StyleSkip ==
    /\ Running /\ pc["style"] = "start"
    /\ style_skips(proj, changes)
    /\ Finish("style", Success("None"))
    /\ UNCHANGED <<status, repeated>>
    /\ UNCHANGED <<proj, changes, source, cycle, proc, disk, file_reg, stderr,
                   agg, raises, spawned, raisedEarly, inFlight, writeLog,
                   lastBytes>>

\* A default configuration file is written when there is none; then the CSS
\* toolchain is started and waited for.
StyleSpawn ==
    /\ Running /\ pc["style"] = "start"
    /\ ~style_skips(proj, changes)
    /\ disk' = IF disk[TwConfigFile] = NoFile
               THEN [disk EXCEPT ![TwConfigFile] = DefaultTwConfig]
               ELSE disk
    /\ pc' = [pc EXCEPT !["style"] = "tailwind"]
    /\ proc' = [proc EXCEPT !["tailwind"] = "running"]
    /\ spawned' = spawned \cup {"tailwind"}
    /\ sub' = [sub EXCEPT !["style"] = "live"]
    /\ UNCHANGED <<status, repeated>>
    /\ UNCHANGED <<proj, changes, source, cycle, result, file_reg, stderr, agg,
                   raises, raisedEarly, inFlight, writeLog, lastBytes>>

\* The CSS toolchain cannot be found, or a path cannot be resolved.
StyleSpawnErr ==
    /\ Running /\ pc["style"] = "start"
    /\ ~style_skips(proj, changes)
    /\ disk' = IF disk[TwConfigFile] = NoFile
               THEN [disk EXCEPT ![TwConfigFile] = DefaultTwConfig]
               ELSE disk
    /\ Finish("style", Err)
    /\ status' = [status EXCEPT !["tailwind"] = "nospawn"]
    /\ UNCHANGED repeated
    /\ UNCHANGED <<proj, changes, source, cycle, proc, file_reg, stderr, agg,
                   raises, spawned, raisedEarly, inFlight, writeLog, lastBytes>>

StyleExit(texts) ==
    /\ Running /\ pc["style"] = "tailwind" /\ CanExit("style")
    /\ proc' = [proc EXCEPT !["tailwind"] = "exited"]
    /\ \E ok \in BOOLEAN, text \in texts :
        /\ stderr' = [ok |-> ok, text |-> text]
        /\ status' = [status EXCEPT
                          !["tailwind"] = IF ok THEN "ok" ELSE "failed"]
        /\ IF compile_tailwind(ok, text) = "Success"
           THEN LET st == updated_with(
                            [reg |-> file_reg, disk |-> disk, log |-> <<>>,
                             last |-> lastBytes, changed |-> FALSE],
                            CssSite, CssOf(source))
                IN  /\ file_reg' = st.reg
                    /\ disk' = st.disk
                    /\ writeLog' = st.log
                    /\ lastBytes' = st.last
                    /\ Finish("style", style_product(st.changed))
           ELSE /\ Finish("style", Failed)
                /\ UNCHANGED <<file_reg, disk, writeLog, lastBytes>>
    /\ UNCHANGED repeated
    /\ UNCHANGED <<proj, changes, source, cycle, agg, raises, spawned,
                   raisedEarly, inFlight>>

StyleInterrupted ==
    /\ Running /\ pc["style"] = "tailwind" /\ Interrupted("style")
    /\ proc' = terminate(proc, "tailwind")
    /\ Finish("style", Stopped)
    /\ status' = [status EXCEPT !["tailwind"] = "killed"]
    /\ UNCHANGED repeated
    /\ UNCHANGED <<proj, changes, source, cycle, disk, file_reg, stderr, agg,
                   raises, spawned, raisedEarly, inFlight, writeLog, lastBytes>>

-----------------------------------------------------------------------------
(* Build orchestrator *)

Outcomes(res) == {res[t].outcome : t \in Tasks}
Products(res) == {res[t].product : t \in Tasks} \ {"None"}

\* Mutant: Failed takes precedence over Stopped.
reduce_failed_first(res) ==
    IF "Err" \in Outcomes(res)
    THEN [outcome |-> "Err", products |-> {}]
    ELSE IF "Failed" \in Outcomes(res)
    THEN [outcome |-> "Failed", products |-> {}]
    ELSE IF "Stopped" \in Outcomes(res)
    THEN [outcome |-> "Stopped", products |-> {}]
    ELSE [outcome |-> "Success", products |-> Products(res)]

\* The reduction of the three joined task results.
reduce(res) ==
    IF "Err" \in Outcomes(res)
    THEN [outcome |-> "Err", products |-> {}]
    ELSE IF "Stopped" \in Outcomes(res)
    THEN [outcome |-> "Stopped", products |-> {}]
    ELSE IF "Failed" \in Outcomes(res)
    THEN [outcome |-> "Failed", products |-> {}]
    ELSE [outcome |-> "Success", products |-> Products(res)]

Join ==
    /\ Running
    /\ \A t \in Tasks : Done(t)
    /\ agg' = reduce(result)
    /\ UNCHANGED <<status, repeated>>
    /\ UNCHANGED <<proj, changes, source, cycle, pc, result, sub, proc, disk,
                   file_reg, stderr, raises, spawned, raisedEarly, inFlight,
                   writeLog, lastBytes>>

\* The next cycle: a new change set, the bus reset, the store kept.
\* A loop that starts the next cycle without awaiting the running one.
NewCycleEarly(srcs) ==
    /\ agg.outcome # "Err"
    /\ cycle < MaxCycles
    /\ cycle' = cycle + 1
    /\ \E s \in srcs, f \in BOOLEAN :
        /\ source' = s
        /\ changes' = [changes EXCEPT !.front = f]
        /\ repeated' = (agg.outcome = "Success" /\ s = source
                                                /\ f = changes.front)
    /\ pc' = [t \in Tasks |-> "start"]
    /\ result' = [t \in Tasks |-> Pending]
    /\ sub' = [t \in Tasks |-> "none"]
    /\ proc' = [p \in Procs |-> "none"]
    /\ agg' = [outcome |-> "Pending", products |-> {}]
    /\ raises' = 0
    /\ spawned' = {}
    /\ raisedEarly' = FALSE
    /\ inFlight' = {}
    /\ writeLog' = <<>>
    /\ status' = [s \in Substeps |-> "none"]
    /\ UNCHANGED <<proj, disk, file_reg, stderr, lastBytes>>

NewCycle(srcs) ==
    /\ agg.outcome \in {"Success", "Failed", "Stopped"}
    /\ cycle < MaxCycles
    /\ cycle' = cycle + 1
    /\ \E s \in srcs, f \in BOOLEAN :
        /\ source' = s
        /\ changes' = [changes EXCEPT !.front = f]
        /\ repeated' = (agg.outcome = "Success" /\ s = source
                                                /\ f = changes.front)
    /\ pc' = [t \in Tasks |-> "start"]
    /\ result' = [t \in Tasks |-> Pending]
    /\ sub' = [t \in Tasks |-> "none"]
    /\ proc' = [p \in Procs |-> "none"]
    /\ agg' = [outcome |-> "Pending", products |-> {}]
    /\ raises' = 0
    /\ spawned' = {}
    /\ raisedEarly' = FALSE
    /\ inFlight' = {}
    /\ writeLog' = <<>>
    /\ status' = [s \in Substeps |-> "none"]
    /\ UNCHANGED <<proj, disk, file_reg, stderr, lastBytes>>

-----------------------------------------------------------------------------
(* Specifications *)

\* Diagnostic texts: up to n pieces of output, one after the other.
Pieces == {Marker, <<"\n">>, <<"D", "o", "n">>, <<"e">>}

RECURSIVE Texts(_)
Texts(n) ==
    IF n = 0 THEN {<<>>}
    ELSE LET S == Texts(n - 1)
         IN  S \cup {s \o c : s \in S, c \in Pieces}

SampleTexts == {<<>>, Marker}

InitCommon ==
    /\ cycle = 1
    /\ pc = [t \in Tasks |-> "start"]
    /\ result = [t \in Tasks |-> Pending]
    /\ sub = [t \in Tasks |-> "none"]
    /\ proc = [p \in Procs |-> "none"]
    /\ file_reg = [k \in RegKeys |-> NoHash]
    /\ stderr = [ok |-> TRUE, text |-> <<>>]
    /\ agg = [outcome |-> "Pending", products |-> {}]
    /\ raises = 0
    /\ spawned = {}
    /\ raisedEarly = FALSE
    /\ inFlight = {}
    /\ writeLog = <<>>
    /\ lastBytes = [s \in SitePaths |-> NoFile]
    /\ status = [s \in Substeps |-> "none"]
    /\ repeated = FALSE

\* One build cycle of any project, any change set.
Init ==
    /\ InitCommon
    /\ proj \in [bin : BOOLEAN, lib : BOOLEAN, style : BOOLEAN,
                 release : BOOLEAN]
    /\ changes \in [server : BOOLEAN, front : BOOLEAN, style : BOOLEAN]
    /\ source \in 0 .. (NumSources - 1)
    /\ disk = [p \in DiskPaths |-> NoFile]

Tasksteps ==
    \/ ServerSkip \/ ServerSpawn \/ ServerSpawnErr
    \/ ServerCargoExit \/ ServerInterrupted
    \/ FrontSkip \/ FrontSpawn \/ FrontSpawnErr
    \/ FrontCargoExit \/ FrontCargoInterrupted
    \/ FrontBindgen \/ FrontBindgenErr \/ FrontOptimizeSpawnErr
    \/ FrontOptimizeExit \/ FrontOptimizeInterrupted \/ FrontWrite
    \/ StyleSkip \/ StyleSpawn \/ StyleSpawnErr \/ StyleInterrupted

Next == Tasksteps \/ StyleExit(SampleTexts) \/ Raise \/ Join

Spec == Init /\ [][Next]_vars


\* A development session of a front-end-only project: several cycles over
\* changing sources, the output store kept from one cycle to the next.
InitSession ==
    /\ InitCommon
    /\ proj \in [bin : {FALSE}, lib : {TRUE}, style : {FALSE},
                 release : BOOLEAN]
    /\ changes \in [server : {FALSE}, front : BOOLEAN, style : {FALSE}]
    /\ source \in 0 .. (NumSessionSources - 1)
    /\ disk = [p \in DiskPaths |-> NoFile]

NextSession ==
    \/ ServerSkip \/ StyleSkip
    \/ FrontSkip \/ FrontSpawn \/ FrontSpawnErr
    \/ FrontCargoExit \/ FrontCargoInterrupted
    \/ FrontBindgen \/ FrontBindgenErr \/ FrontOptimizeSpawnErr
    \/ FrontOptimizeExit \/ FrontOptimizeInterrupted \/ FrontWrite
    \/ Raise \/ Join
    \/ NewCycle(0 .. (NumSessionSources - 1))

SpecSession == InitSession /\ [][NextSession]_vars

\* One cycle of a style-only project, over every diagnostic text.
InitStyle ==
    /\ InitCommon
    /\ proj \in [bin : {FALSE}, lib : {FALSE}, style : {TRUE},
                 release : {FALSE}]
    /\ changes \in [server : {FALSE}, front : {FALSE}, style : BOOLEAN]
    /\ source \in 0 .. (NumSources - 1)
    /\ disk \in {d \in [DiskPaths -> {NoFile, DefaultTwConfig}] :
                    \A p \in DiskPaths \ {TwConfigFile} : d[p] = NoFile}

NextStyle ==
    \/ ServerSkip \/ FrontSkip
    \/ StyleSkip \/ StyleSpawn \/ StyleSpawnErr \/ StyleInterrupted
    \/ StyleExit(Texts(MaxStderrPieces))
    \/ Raise \/ Join

SpecStyle == InitStyle /\ [][NextStyle]_vars

\* A session of debug builds of a project with a server package and,
\* possibly, a front-end package: cycles over one kept store.
InitBuild ==
    /\ InitCommon
    /\ proj \in [bin : {TRUE}, lib : BOOLEAN, style : {FALSE},
                 release : {FALSE}]
    /\ changes \in [server : BOOLEAN, front : BOOLEAN, style : {FALSE}]
    /\ source \in 0 .. (NumSources - 1)
    /\ disk = [p \in DiskPaths |-> NoFile]

NextBuild ==
    \/ StyleSkip
    \/ ServerSkip \/ ServerSpawn \/ ServerSpawnErr
    \/ ServerCargoExit \/ ServerInterrupted
    \/ FrontSkip \/ FrontSpawn \/ FrontSpawnErr
    \/ FrontCargoExit \/ FrontCargoInterrupted
    \/ FrontBindgen \/ FrontBindgenErr \/ FrontWrite
    \/ Raise \/ Join
    \/ NewCycle(0 .. (NumSources - 1))

SpecBuild == InitBuild /\ [][NextBuild]_vars


-----------------------------------------------------------------------------
(* Claims *)

Resolved == agg.outcome # "Pending"
NoHardError == \A t \in Tasks : result[t].outcome # "Err"
Flagged(t) ==
    CASE t = "server" -> changes.server
      [] t = "front" -> changes.front
      [] t = "style" -> changes.style
Configured(t) ==
    CASE t = "server" -> proj.bin
      [] t = "front" -> proj.lib
      [] t = "style" -> proj.style
TaskProcs(t) ==
    CASE t = "server" -> {"cargo_server"}
      [] t = "front" -> {"cargo_front", "wasm_opt"}
      [] t = "style" -> {"tailwind"}

\* C1: once the three tasks are joined with an Outcome each, the aggregate
\* is Stopped if any task is Stopped; else Failed if any task is Failed;
\* else Success carrying exactly the non-None products of the three tasks.
C1_ReductionPrecedence ==
    (Resolved /\ NoHardError) =>
        /\ (\E t \in Tasks : result[t] = Stopped) => agg.outcome = "Stopped"
        /\ ((\A t \in Tasks : result[t] # Stopped)
                /\ (\E t \in Tasks : result[t] = Failed))
            => agg.outcome = "Failed"
        /\ (\A t \in Tasks : result[t].outcome = "Success")
            => /\ agg.outcome = "Success"
               /\ \A p \in {"Server", "Front", "Style"} :
                    p \in agg.products <=>
                        \E t \in Tasks : result[t] = Success(p)
               /\ agg.products \subseteq {"Server", "Front", "Style"}

\* C1 witness: a joined cycle with both a Stopped and a Failed task.
C1_Witness ==
    /\ Resolved
    /\ \E t, u \in Tasks : result[t] = Stopped /\ result[u] = Failed
    /\ agg.outcome = "Stopped"

\* C2: in a cycle in which every task has a build to run and none hits a
\* hard error, a raise of the bus before any task completed makes the
\* aggregate Stopped, and no process is running once the cycle resolved.
C2_RaisedCycleStops ==
    (Resolved /\ raisedEarly /\ NoHardError
        /\ \A t \in Tasks : Configured(t) /\ Flagged(t))
    => /\ agg.outcome = "Stopped"
       /\ \A p \in Procs : proc[p] # "running"

\* C3: a task that was in flight when the bus was raised resolves to
\* Stopped: it never completes with Success or Failed.
C3_InFlightTaskStops ==
    \A t \in inFlight :
        Done(t) => result[t].outcome \notin {"Success", "Failed"}

\* C4: when no category is flagged, no process is ever spawned and the
\* aggregate is Success with an empty product set.
C4_NothingFlagged ==
    (\A t \in Tasks : ~Flagged(t)) =>
        /\ spawned = {}
        /\ \A p \in Procs : proc[p] = "none"
        /\ Resolved => agg = [outcome |-> "Success", products |-> {}]

\* C4 witness: a fully configured project, nothing flagged, the bus raised,
\* the cycle resolved.
C4_Witness ==
    /\ \A t \in Tasks : Configured(t) /\ ~Flagged(t)
    /\ raises > 0
    /\ Resolved

\* C5: a task whose category is not flagged or whose package is not
\* configured spawns nothing, never leaves the start of its run except to
\* finish with Success(None), and leaves its toolchain's files alone; with
\* only the server category flagged only the server's compiler is spawned.
C5_SkippedTaskIsInert ==
    /\ \A t \in Tasks :
        (~Flagged(t) \/ ~Configured(t)) =>
            /\ TaskProcs(t) \cap spawned = {}
            /\ pc[t] \in {"start", "done"}
            /\ Done(t) => result[t] = Success("None")
    /\ (~Flagged("server") \/ ~Configured("server")) => disk[ExeFile] = NoFile
    /\ (~Flagged("front") \/ ~Configured("front")) =>
            disk[WasmSource] = NoFile /\ disk[Dest(WasmSite)] = NoFile
    /\ (~Flagged("style") \/ ~Configured("style")) =>
            disk[TwConfigFile] = NoFile /\ disk[Dest(CssSite)] = NoFile
    /\ (Flagged("server") /\ ~Flagged("front") /\ ~Flagged("style")) =>
            spawned \subseteq {"cargo_server"}

\* C5 witness: only the server flagged, everything configured, the server's
\* compiler spawned and the other two tasks finished.
C5_Witness ==
    /\ \A t \in Tasks : Configured(t)
    /\ Flagged("server") /\ ~Flagged("front") /\ ~Flagged("style")
    /\ spawned = {"cargo_server"}
    /\ Done("front") /\ Done("style")

Ran(t) == TaskProcs(t) \cap spawned # {}
GeneratedSites ==
    {JsSite} \cup {op[1] : op \in {snippet_ops(SnippetsOf(source))[i] :
                        i \in DOMAIN snippet_ops(SnippetsOf(source))}}
             \cup {op[1] : op \in {module_ops(ModulesOf(source))[i] :
                        i \in DOMAIN module_ops(ModulesOf(source))}}
Hashed(key, path) ==
    disk[path] # NoFile /\ file_reg[key] = file_hash(disk[path])
OutputsHashed(t) ==
    CASE t = "server" -> Hashed(ExeFile, ExeFile)
      [] t = "front" ->
            \A s \in GeneratedSites \cup {WasmSite} : Hashed(s, Dest(s))
      [] t = "style" -> Hashed(CssSite, Dest(CssSite))

OneFailedTwoSucceeded ==
    /\ Cardinality({t \in Tasks : result[t] = Failed}) = 1
    /\ Cardinality({t \in Tasks : result[t].outcome = "Success"}) = 2

\* C6: when exactly one task failed and the two others succeeded, the
\* aggregate is Failed and every output of a task that ran and succeeded is
\* on disk with the hash of its content recorded in the output store.
C6_PartialSuccessKept ==
    (Resolved /\ OneFailedTwoSucceeded) =>
        /\ agg.outcome = "Failed"
        /\ \A t \in Tasks :
            (result[t].outcome = "Success" /\ Ran(t)) => OutputsHashed(t)

\* C6 witness: the style task failed, the server and front-end tasks ran
\* and succeeded.
C6_Witness ==
    /\ Resolved /\ OneFailedTwoSucceeded
    /\ result["style"] = Failed
    /\ Ran("server") /\ Ran("front")


\* The steps of a task (but the write phase, which has no guard but AtWrite).
TaskStep(t) ==
    CASE t = "server" ->
            \/ ServerSkip \/ ServerSpawn \/ ServerSpawnErr
            \/ ServerCargoExit \/ ServerInterrupted
      [] t = "front" ->
            \/ FrontSkip \/ FrontSpawn \/ FrontSpawnErr
            \/ FrontCargoExit \/ FrontCargoInterrupted
            \/ FrontBindgen \/ FrontBindgenErr \/ FrontOptimizeSpawnErr
            \/ FrontOptimizeExit \/ FrontOptimizeInterrupted
      [] t = "style" ->
            \/ StyleSkip \/ StyleSpawn \/ StyleSpawnErr
            \/ StyleExit(SampleTexts) \/ StyleInterrupted

C7_Joined ==
    /\ Resolved => \A t \in Tasks : Done(t)
    /\ \A t \in Tasks :
        (Running /\ ~Done(t)) => (AtWrite /\ t = "front") \/ ENABLED TaskStep(t)
    /\ \A t \in Tasks : result[t] = Stopped => raises > 0
    /\ \A p \in Procs : proc[p] = "killed" => raises > 0

C7_FailureIsLocal ==
    \A t \in Tasks :
        (result[t] = Pending /\ result'[t] = Failed) =>
            \A u \in Tasks \ {t} :
                /\ pc'[u] = pc[u] /\ result'[u] = result[u]
                /\ sub'[u] = sub[u]
                /\ \A p \in TaskProcs(u) : proc'[p] = proc[p]

\* C7: the cycle resolves only with all three tasks joined; a task that has
\* not finished can always take its next step, whatever its siblings
\* reported; the step in which a task fails changes nothing of its
\* siblings; and a task is stopped, or a process killed, only after a raise
\* of the bus.
C7_FailureCancelsNoSibling == []C7_Joined /\ [][C7_FailureIsLocal]_vars

\* C7 witness: one task has failed while a sibling's process is running and
\* the bus was not raised.
C7_Witness ==
    /\ raises = 0
    /\ \E t \in Tasks : result[t] = Failed
    /\ \E p \in Procs : proc[p] = "running"

\* The last line of the text holds the marker: the marker occurs at a place
\* after which no line feed follows, but for one ending the text.
LastLineHasMarker(text) ==
    \E i \in 1 .. Len(text) :
        /\ i + Len(Marker) - 1 <= Len(text)
        /\ \A k \in 1 .. Len(Marker) : text[i + k - 1] = Marker[k]
        /\ \A j \in (i + Len(Marker)) .. (Len(text) - 1) : text[j] # "\n"

\* C8: the style task that ran its toolchain succeeds exactly when the
\* toolchain exited zero and the last line of its diagnostic output holds
\* the marker "Done"; any other exit gives Failed; a killed toolchain gives
\* Stopped, and only that does.
C8_StyleNeedsDoneMarker ==
    /\ proc["tailwind"] = "exited" =>
        /\ result["style"].outcome = "Success"
            <=> (stderr.ok /\ LastLineHasMarker(stderr.text))
        /\ result["style"].outcome \in {"Success", "Failed"}
    /\ proc["tailwind"] = "killed" <=> result["style"] = Stopped

\* C8 witness: the toolchain exited zero with the marker in a line that is
\* not the last one, and the task failed.
C8_Witness ==
    /\ proc["tailwind"] = "exited" /\ stderr.ok
    /\ contains(stderr.text, Marker)
    /\ result["style"] = Failed

JsSites == SitePaths \ {WasmSite, CssSite}
FrontWrote == pc["front"] = "write" /\ pc'["front"] = "done"
GeneratedOps ==
    LET ops == snippet_ops(SnippetsOf(source))
                \o module_ops(ModulesOf(source)) \o <<<<JsSite, GlueOf(source)>>>>
    IN  {ops[i] : i \in DOMAIN ops}

C9_FrontProduct ==
    FrontWrote =>
        /\ result'["front"].outcome = "Success"
        /\ result'["front"] = Success("Front")
            <=> \/ file_reg'[WasmSite] # file_reg[WasmSite]
                \/ \E s \in JsSites : file_reg'[s] # file_reg[s]
        /\ ((\A op \in GeneratedOps : lastBytes[op[1]] = op[2])
                /\ file_reg[WasmSite] = file_hash(disk[Dest(WasmSite)]))
            => result'["front"] = Success("None")

\* C9: the write phase of the front-end task ends with Success(Front) if and
\* only if the stored hash of the wasm file or of a generated JavaScript
\* file changed in it, and with Success(None) when every generated file has
\* the bytes last written to it and the wasm file has the stored hash.
C9_FrontReportsChange == [][C9_FrontProduct]_vars

\* C9 witness: a later cycle whose write phase found nothing changed.
C9_Witness ==
    /\ cycle > 1
    /\ writeLog # <<>>
    /\ result["front"] = Success("None")

\* C10: a store write returns false and writes no file when its bytes are
\* the bytes last written to the path, and returns true and writes the file
\* otherwise; afterwards the stored hash is that of the bytes last written.
C10_StoreRoundTrip ==
    /\ \A i \in DOMAIN writeLog :
        /\ writeLog[i].ret <=> (writeLog[i].bytes # writeLog[i].prev)
        /\ writeLog[i].wrote <=> writeLog[i].ret
    /\ \A s \in SitePaths :
        lastBytes[s] # NoFile =>
            /\ file_reg[s] = file_hash(lastBytes[s])
            /\ disk[Dest(s)] = lastBytes[s]

\* C10 witness: one write phase with an unchanged file skipped and a file
\* written before rewritten with other bytes.
C10_Witness ==
    /\ \E i \in DOMAIN writeLog : ~writeLog[i].ret
    /\ \E i \in DOMAIN writeLog :
        writeLog[i].ret /\ writeLog[i].prev # NoFile

NoStoreWrite == \A i \in DOMAIN writeLog : ~writeLog[i].wrote
NoSubstepFailed == \A s \in Substeps : status[s] \in {"none", "ok"}

\* C11: in a cycle that re-runs a cycle that returned Success, with the same
\* change set and the same source, no store write writes a file; a front-end
\* task that succeeds reports no product; and when no sub-step fails or is
\* interrupted the cycle returns Success again, with no product.
C11_IdempotentCycle ==
    repeated =>
        /\ NoStoreWrite
        /\ result["front"].outcome = "Success"
            => result["front"] = Success("None")
        /\ (Resolved /\ NoSubstepFailed)
            => agg = [outcome |-> "Success", products |-> {}]

\* C11 witness: a re-run cycle whose write phase handed every generated file
\* to the store and which returned Success.
C11_Witness ==
    /\ repeated
    /\ Len(writeLog) = Cardinality(GeneratedOps)
    /\ agg.outcome = "Success"

RaiseStep == raises' = raises + 1

C12_Delivered ==
    /\ RaiseStep =>
        \A t \in Tasks :
            sub'[t] = IF sub[t] = "live" THEN "fired" ELSE sub[t]
    /\ \A t \in Tasks :
        (sub'[t] = "fired" /\ sub[t] # "fired") =>
            (RaiseStep /\ sub[t] = "live")

\* C12: a raise fires every subscription that exists when it occurs and no
\* other; a subscription fires only in a raise that occurs while it exists,
\* so a subscription taken after a raise does not fire for it, and a
\* subscription that has fired does not fire again.
C12_BusDelivery == [][C12_Delivered]_vars

\* C12 witness: one raise has fired the subscriptions of two tasks, and a
\* third task subscribed after it and is still waiting.
C12_Witness ==
    /\ raises = 1
    /\ Cardinality({t \in Tasks : sub[t] = "fired"}) = 2
    /\ \E t \in Tasks : sub[t] = "live"

Owner(p) == CHOOSE t \in Tasks : p \in TaskProcs(t)
WaitPc(p) ==
    CASE p \in {"cargo_server", "cargo_front"} -> "cargo"
      [] p = "wasm_opt" -> "optimize"
      [] p = "tailwind" -> "tailwind"

C13_Returned ==
    \A p \in Procs :
        /\ proc[p] = "running" =>
            (status[p] = "none" /\ pc[Owner(p)] = WaitPc(p))
        /\ status[p] = "killed" =>
            (proc[p] = "killed" /\ result[Owner(p)] = Stopped)
        /\ status[p] \in {"ok", "failed"} => proc[p] = "exited"
        /\ status[p] = "failed" => result[Owner(p)] = Failed

C13_ResolvedOnce ==
    cycle' = cycle =>
        \A p \in Procs :
            /\ status[p] # "none" => status'[p] = status[p]
            /\ proc[p] \in {"exited", "killed"} => proc'[p] = proc[p]

\* C13: once the runner has returned, the process it was given is not
\* running: a process is running only while its task waits on it; the
\* runner returns Interrupted only with the process terminated, and Success
\* or Failure only with the process exited (zero or non-zero); and a process
\* that has resolved keeps its one result for the rest of the cycle.
C13_RunnerReturnsAfterProcess == []C13_Returned /\ [][C13_ResolvedOnce]_vars

\* C13 witness: in one cycle the runner returned Interrupted for one process,
\* Failure for another and Success for a third.
C13_Witness ==
    /\ \E p \in Procs : status[p] = "killed" /\ proc[p] = "killed"
    /\ \E p \in Procs : status[p] = "failed" /\ proc[p] = "exited"
    /\ \E p \in Procs : status[p] = "ok" /\ proc[p] = "exited"

ServerResolved == pc["server"] = "cargo" /\ pc'["server"] = "done"
ExeChanged == file_reg[ExeFile] # file_hash(disk'[ExeFile])

C14_Mapped ==
    ServerResolved =>
        /\ status'["cargo_server"] \in {"ok", "killed", "failed"}
        /\ status'["cargo_server"] = "ok" =>
            result'["server"] =
                IF ExeChanged THEN Success("Server") ELSE Success("None")
        /\ status'["cargo_server"] = "killed" => result'["server"] = Stopped
        /\ status'["cargo_server"] = "failed" => result'["server"] = Failed

\* C14: when the server task, configured and flagged, has waited on the
\* compiler, its outcome is Success(Server) after a zero exit if the stored
\* hash of the executable differs from the hash of the file built, and
\* Success(None) if it is the same; Stopped after an interrupt; Failed after
\* a non-zero exit; and nothing else.
C14_ServerOutcome == [][C14_Mapped]_vars

\* C14 witness: a later cycle rebuilt the executable with the content already
\* hashed and the server task returned Success(None).
C14_Witness ==
    /\ cycle > 1
    /\ status["cargo_server"] = "ok"
    /\ result["server"] = Success("None")

JsWritten == \E s \in JsSites : lastBytes[s] # NoFile

\* C15: the front-end task's sub-steps run in order: the binding generator
\* starts only after the compiler exited zero; the optimiser is spawned only
\* in a release build and only with the wasm file emitted by the binding
\* generator on disk; and generated JavaScript is handed to the store only
\* after the binding generator succeeded and, in a release build, the
\* optimiser exited zero (in a debug build no optimiser ran).
C15_FrontSequential ==
    /\ (pc["front"] \in {"bindgen", "optimize", "write"}
            \/ status["bindgen"] # "none")
        => status["cargo_front"] = "ok"
    /\ ("wasm_opt" \in spawned \/ status["wasm_opt"] # "none")
        => (proj.release /\ status["bindgen"] = "ok"
                         /\ disk[Dest(WasmSite)] # NoFile)
    /\ pc["front"] = "optimize"
        => disk[Dest(WasmSite)] = EmittedWasm(WasmOf(source))
    /\ (pc["front"] = "write" \/ JsWritten)
        => /\ status["bindgen"] = "ok"
           /\ status["wasm_opt"] = IF proj.release THEN "ok" ELSE "none"

\* C15 witness: a release build wrote generated JavaScript after the
\* optimiser exited zero.
C15_Witness ==
    /\ proj.release
    /\ JsWritten
    /\ status["wasm_opt"] = "ok"
    /\ result["front"] = Success("Front")

C16_Step ==
    /\ cycle' # cycle =>
        /\ Resolved
        /\ \A t \in Tasks : Done(t)
        /\ \A p \in Procs : proc[p] # "running"
    /\ \A p \in Compilers :
        (proc'[p] = "running" /\ proc[p] # "running") =>
            /\ proc[p] = "none"
            /\ \A q \in Compilers \ {p} :
                proc[q] = "running" => TargetDir(q) # TargetDir(p)

\* C16: a cycle begins only when the aggregate outcome of the one before has
\* resolved, with every task joined and no process running; and a compiler
\* is started only when it has not run in the cycle and no running compiler
\* builds in the same target directory.
C16_CyclesNeverOverlap == [][C16_Step]_vars

\* C16 witness: in a later cycle the server and the front-end compilers run
\* at the same time.
C16_Witness ==
    /\ cycle > 1
    /\ \A p \in Compilers : proc[p] = "running"

FrontSubsteps == {"cargo_front", "bindgen", "wasm_opt"}

\* C17: a front-end task in which a sub-step failed (the compiler exited
\* non-zero, the binding generator failed, or the optimiser exited non-zero)
\* resolves to Failed.
C17_SubstepFailureFails ==
    \A s \in FrontSubsteps :
        (status[s] = "failed" /\ Done("front")) => result["front"] = Failed

\* C18: when a tool cannot be located or spawned (the server or front-end
\* compiler, the optimiser, the CSS toolchain) no process runs, the task
\* returns an error and no Outcome, and the cycle ends with that error, not
\* with an aggregate Success, Stopped or Failed, whatever the other tasks
\* returned.
C18_EnvironmentFailureIsHard ==
    \A p \in Procs :
        status[p] = "nospawn" =>
            /\ proc[p] = "none"
            /\ result[Owner(p)] = Err
            /\ Resolved => agg.outcome = "Err"

\* C18 witness: a tool could not be started while one sibling task failed
\* and the other was stopped, and the cycle ended with the error.
C18_Witness ==
    /\ \E p \in Procs : status[p] = "nospawn"
    /\ \E t \in Tasks : result[t] = Failed
    /\ \E t \in Tasks : result[t] = Stopped
    /\ agg.outcome = "Err"

StoppedOrFailed(t) == result[t] \in {Stopped, Failed}
FrontKeys == SitePaths \ {CssSite}

C19_Untouched ==
    /\ StoppedOrFailed("server") => file_reg[ExeFile] = NoHash
    /\ StoppedOrFailed("front") => \A k \in FrontKeys : file_reg[k] = NoHash

C19_StoreStep ==
    /\ file_reg'[ExeFile] # file_reg[ExeFile] =>
        /\ result["server"] = Pending
        /\ result'["server"].outcome = "Success"
        /\ status'["cargo_server"] = "ok"
    /\ \A k \in FrontKeys :
        file_reg'[k] # file_reg[k] =>
            /\ result["front"] = Pending
            /\ result'["front"].outcome = "Success"
            /\ status["cargo_front"] = "ok"
            /\ status["wasm_opt"] = IF proj.release THEN "ok" ELSE "none"

\* C19: a server or front-end task that resolved to Stopped or Failed has
\* changed no hash of the store in the cycle: the hash of the executable
\* changes only in the step in which the server task returns Success after
\* a zero exit of the compiler, and the hashes of the front-end files only in
\* the step in which the front-end task returns Success, after the compiler
\* and (in a release build) the optimiser exited zero.
C19_FailureLeavesStore == []C19_Untouched /\ [][C19_StoreStep]_vars

\* C19 witness: the binding generator rewrote the wasm file on disk, the
\* optimiser then failed or was interrupted, and the store has no hash for
\* the wasm file.
C19_Witness ==
    /\ StoppedOrFailed("front")
    /\ status["wasm_opt"] \in {"failed", "killed"}
    /\ disk[Dest(WasmSite)] # NoFile
    /\ file_reg[WasmSite] = NoHash

C20_AllWritten ==
    FrontWrote =>
        /\ Len(writeLog') = Cardinality(GeneratedOps)
        /\ \A op \in GeneratedOps :
            /\ \E i \in DOMAIN writeLog' :
                writeLog'[i].site = op[1] /\ writeLog'[i].bytes = op[2]
            /\ file_reg'[op[1]] = file_hash(op[2])
            /\ disk'[Dest(op[1])] = op[2]
        /\ file_reg'[WasmSite] = file_hash(disk'[Dest(WasmSite)])

\* C20: a write phase of the front-end task hands every inline snippet,
\* every local module and the glue to the store and checks the wasm file,
\* whether or not an earlier operation reported a change; afterwards the
\* stored hash of every generated file is the hash of the content generated
\* in the cycle.
C20_NoShortCircuit == [][C20_AllWritten]_vars

\* C20 witness: in a later cycle the first store write reported a change and
\* a later write of the same phase changed its file too.
C20_Witness ==
    /\ cycle > 1
    /\ result["front"] = Success("Front")
    /\ Len(writeLog) > 1
    /\ writeLog[1].ret /\ writeLog[1].prev # NoFile
    /\ \E i \in DOMAIN writeLog :
        i > 1 /\ writeLog[i].ret /\ writeLog[i].prev # NoFile

====
